---- MODULE Spec2Model ----
(***************************************************************************)
(* Model of the FastSAM segmentation server (src/server/server.py):        *)
(* the POST /segment handler segment_image with its mask filter, the two   *)
(* inpainting modes and the response it assembles, and the pure helpers    *)
(* expand_bbox, generate_distinct_color and filter_masks_by_background,    *)
(* the save_debug_images task the handler schedules, the mask filter run   *)
(* on its own output, and the /ws connection handler websocket_endpoint    *)
(* (src/server/websocket_server.py).                                       *)
(*                                                                         *)
(* Conventions.  Python None is the empty tuple <<>>; an optional value    *)
(* that is present is a non-empty tuple.  A float is a rational            *)
(* [n |-> numerator, d |-> denominator] with d > 0; every float the model  *)
(* draws is a ratio of small integers whose IEEE quotient compares the     *)
(* same way as the rational.  A probability mask is a tuple of rows of     *)
(* probabilities in tenths (0..10), so "mask > 0.5" is "entry > 5".        *)
(***************************************************************************)
EXTENDS Integers, Sequences, FiniteSets

VARIABLES
    request,                      \* the validated SegmentRequest
    pc,                           \* position of the handler
    image,                        \* image.size once decoded, <<>> before
    results,                      \* what the FastSAM call returned
    background_mask,              \* SegFormer background mask, <<>> when not computed
    background_excluded_indices,  \* indices kept by the background step
    filtered_masks,               \* first-pass survivors
    combined_inpainted,           \* combined inpainted image (debug), <<>> for None
    combined_inpaint_data,        \* encoded combined result, <<>> for None
    masks_data,                   \* payloads built so far
    response,                     \* <<>> until the handler returns, then <<the response>>
    calls,                        \* collaborator invocations, in order
    raised,                       \* stage whose exception reached the outer handler
    debug_task,                   \* the save_debug_images task, <<>> until it is created
    eb_in,                        \* argument of a stand-alone expand_bbox call
    eb_out,                       \* its result, <<>> before the call
    flt_in,                       \* input of a stand-alone run of the mask filter
    flt_out,                      \* the results of its runs, in order
    ws_pc,                        \* position of the /ws connection handler
    ws_data,                      \* the text message being handled, <<>> between messages
    ws_response,                  \* the message being sent or last sent, <<>> before
    ws_received,                  \* text messages read from the connection
    ws_sent                       \* the outcome of every message sent, in order

vars == <<request, pc, image, results, background_mask, background_excluded_indices,
          filtered_masks, combined_inpainted, combined_inpaint_data, masks_data,
          response, calls, raised, debug_task, eb_in, eb_out,
          flt_in, flt_out, ws_pc, ws_data, ws_response, ws_received, ws_sent>>

\* the state of the stand-alone filter run and of the /ws connection
flt_vars == <<flt_in, flt_out>>

ws_vars == <<ws_pc, ws_data, ws_response, ws_received, ws_sent>>

(***************************************************************************)
(* Bounds of the model.                                                    *)
(***************************************************************************)
MaxProposals == 2

\* text messages read on one /ws connection
MaxMessages == 3

(***************************************************************************)
(* Rationals standing for Python floats.                                   *)
(***************************************************************************)
Rat(n, d) == [n |-> n, d |-> d]

RatLT(a, b) == a.n * b.d < b.n * a.d

\* int(x) of a rational n/d, d > 0: truncation toward zero.
TruncDiv(n, d) == IF n >= 0 THEN n \div d ELSE -((-n) \div d)

None == <<>>

Range(n) == [i \in 1..(IF n > 0 THEN n ELSE 0) |-> i - 1]

Min(a, b) == IF a < b THEN a ELSE b

Max(a, b) == IF a > b THEN a ELSE b

\* Python's seq[:k]: the first k elements, or all but the last -k when k < 0.
SliceLen(n, k) == IF k >= 0 THEN Min(n, k) ELSE Max(n + k, 0)

Slice(s, k) == SubSeq(s, 1, SliceLen(Len(s), k))

(***************************************************************************)
(* generate_distinct_color: hue = (index * golden_ratio) % 1.0, then       *)
(* colorsys.hsv_to_rgb(hue, 0.7, 0.9) scaled by 255 and truncated.         *)
(* v*255 = 229.5, p*255 = 0.27*255 = 68.85,                                *)
(* q*255 = 229.5 - 160.65 f, t*255 = 229.5 - 160.65 (1 - f).               *)
(* The hue is kept in units of 1/HueScale (a multiple of 6, so that the    *)
(* sextant int(hue*6) and the fraction f are exact divisions); the golden  *)
(* ratio 0.618033988749895 is GoldenRatioFP units and GoldenRatioFrac      *)
(* millionths of a unit.  Products are split so that every intermediate    *)
(* value stays below 2^31.  The result equals the float computation for    *)
(* every index 0..7999.                                                    *)
(***************************************************************************)
HueScale == 600000000

GoldenRatioFP == 370820393

GoldenRatioFrac == 249937

\* (index * golden_ratio) % 1.0 in units of 1/HueScale
Hue(index) ==
    LET high  == ((index * (GoldenRatioFP \div 10000)) % (HueScale \div 10000)) * 10000
        low   == index * (GoldenRatioFP % 10000)
        carry == (index * GoldenRatioFrac) \div 1000000
    IN  (high + low + carry) % HueScale

\* int((229.5 - 160.65 * f) ) for f in units of 6/HueScale: with
\* 16065 * f = whole * 10^4 + rest, the value is (229500000 - whole - rest/10^4) / 10^6
ColorChannel(f) ==
    LET part  == 16065 * (f % 10000)
        whole == 16065 * (f \div 10000) + part \div 10000
        rest  == part % 10000
    IN  (229500000 - whole - (IF rest > 0 THEN 1 ELSE 0)) \div 1000000

generate_distinct_color(index) ==
    LET hue == Hue(index)
        i   == hue \div (HueScale \div 6)
        f   == hue % (HueScale \div 6)
        v   == 229
        p   == 68
        q   == ColorChannel(f)
        t   == ColorChannel(HueScale \div 6 - f)
    IN  CASE i = 0 -> <<v, t, p>>
          [] i = 1 -> <<q, v, p>>
          [] i = 2 -> <<p, v, t>>
          [] i = 3 -> <<p, q, v>>
          [] i = 4 -> <<t, p, v>>
          [] OTHER -> <<v, p, q>>

(***************************************************************************)
(* expand_bbox(bbox, image_size, padding_ratio).  Coordinates are integral *)
(* floats; pad = (x2 - x1) * ratio.  The low corner is int(max(0, x - pad))*)
(* and the high corner int(min(size, x + pad)).                            *)
(***************************************************************************)
ExpandLow(a, b, ratio) ==
    LET num == a * ratio.d - (b - a) * ratio.n
    IN  IF num <= 0 THEN 0 ELSE num \div ratio.d

ExpandHigh(a, b, size, ratio) ==
    LET num == b * ratio.d + (b - a) * ratio.n
    IN  IF num >= size * ratio.d THEN size ELSE TruncDiv(num, ratio.d)

expand_bbox(bbox, image_size, padding_ratio) ==
    << ExpandLow(bbox[1], bbox[3], padding_ratio),
       ExpandLow(bbox[2], bbox[4], padding_ratio),
       ExpandHigh(bbox[1], bbox[3], image_size[1], padding_ratio),
       ExpandHigh(bbox[2], bbox[4], image_size[2], padding_ratio) >>

(***************************************************************************)
(* Masks: grids of probabilities or of 0/1 values.                         *)
(***************************************************************************)
Height(m) == Len(m)

Width(m) == Len(m[1])

Pixels(m) == (1..Height(m)) \X (1..Width(m))

\* (mask > 0.5).astype(np.uint8)
Binarize(mask) ==
    [r \in 1..Height(mask) |-> [c \in 1..Width(mask) |-> IF mask[r][c] > 5 THEN 1 ELSE 0]]

\* np.sum of a 0/1 grid
PixelSum(b) == Cardinality({p \in Pixels(b) : b[p[1]][p[2]] = 1})

\* np.sum(binary_mask & bg) for two 0/1 grids of one shape
OverlapSum(b, bg) == Cardinality({p \in Pixels(b) : b[p[1]][p[2]] = 1 /\ bg[p[1]][p[2]] = 1})

\* cv2.resize(src, (w, h), interpolation=cv2.INTER_NEAREST):
\* dst[y][x] = src[min(floor(y * src_h / h), src_h - 1)][min(floor(x * src_w / w), src_w - 1)]
ResizeNearest(src, w, h) ==
    [r \in 1..h |-> [c \in 1..w |->
        src[Min(((r - 1) * Height(src)) \div h, Height(src) - 1) + 1]
           [Min(((c - 1) * Width(src)) \div w, Width(src) - 1) + 1]]]

\* ADE20K background classes: wall = 0, floor = 3, ceiling = 5
BACKGROUND_CLASS_IDS == {0, 3, 5}

\* .squeeze() of the (1, H, W) argmax, given as its H x W grid: a grid with one row
\* becomes a 1-D array, which cv2.resize reads as a single column and which is
\* represented as that column; any other grid of more than one cell keeps its shape
Squeeze(grid) ==
    IF Height(grid) = 1 /\ Width(grid) > 1
    THEN [r \in 1..Width(grid) |-> <<grid[1][r]>>]
    ELSE grid

\* predicted = logits.argmax(dim=1).squeeze();
\* np.isin(predicted, BACKGROUND_CLASS_IDS).astype(np.uint8)
get_background_mask_segformer(argmax) ==
    LET predicted == Squeeze(argmax)
    IN  [r \in 1..Height(predicted) |-> [c \in 1..Width(predicted) |->
            IF predicted[r][c] \in BACKGROUND_CLASS_IDS THEN 1 ELSE 0]]

(***************************************************************************)
(* filter_masks_by_background.  fastsam_masks[0].shape raises IndexError   *)
(* on an empty array; an empty binarized mask records ratio 0.0 and is     *)
(* skipped by `continue` before the threshold test, so it is not kept.     *)
(***************************************************************************)
IndexErrorMessage == "index 0 is out of bounds for axis 0 with size 0"

\* overlap / mask_area, or 0.0 for an empty mask
OverlapRatio(mask, bg_resized) ==
    LET binary_mask == Binarize(mask)
        mask_area   == PixelSum(binary_mask)
    IN  IF mask_area = 0 THEN Rat(0, 1)
        ELSE Rat(OverlapSum(binary_mask, bg_resized), mask_area)

\* (mutant) the test written `overlap_ratio <= threshold`
BelowThreshold_OrEqual(overlap_ratio, threshold) == ~RatLT(threshold, overlap_ratio)

\* the test `overlap_ratio < threshold` that keeps a mask
BelowThreshold(overlap_ratio, threshold) == RatLT(overlap_ratio, threshold)

BackgroundKeeps(mask, bg_resized, threshold) ==
    /\ PixelSum(Binarize(mask)) # 0
    /\ BelowThreshold(OverlapRatio(mask, bg_resized), threshold)

filter_masks_by_background(fastsam_masks, bg_mask, threshold) ==
    IF Len(fastsam_masks) = 0
    THEN [raises |-> <<IndexErrorMessage>>, filtered_indices |-> <<>>, overlap_ratios |-> <<>>]
    ELSE LET mask_h == Height(fastsam_masks[1])
             mask_w == Width(fastsam_masks[1])
             bg_resized == ResizeNearest(bg_mask, mask_w, mask_h)
         IN  [raises |-> <<>>,
              filtered_indices |->
                  SelectSeq(Range(Len(fastsam_masks)),
                            LAMBDA i : BackgroundKeeps(fastsam_masks[i + 1], bg_resized, threshold)),
              overlap_ratios |->
                  [k \in 1..Len(fastsam_masks) |-> OverlapRatio(fastsam_masks[k], bg_resized)]]

(***************************************************************************)
(* The first pass of segment_image: the area filter and the id assignment. *)
(***************************************************************************)
InIndices(i, indices) == \E k \in 1..Len(indices) : indices[k] = i

\* (mutant) the test written `mask_area_ratio <= request.min_area`
AreaTooSmall_OrEqual(mask_pixel_count, total_area, min_area) ==
    ~RatLT(min_area, Rat(mask_pixel_count, total_area))

\* the test `mask_area_ratio < request.min_area` that skips a mask
AreaTooSmall(mask_pixel_count, total_area, min_area) ==
    RatLT(Rat(mask_pixel_count, total_area), min_area)

\* (mutant) the increment of mask_id left out
NextMaskId_Stuck(mask_id) == mask_id

\* mask_id += 1
NextMaskId(mask_id) == mask_id + 1

\* boxes[i].tolist() if boxes is not None and i < len(boxes) else None
BoxOf(res, i) ==
    IF ~res.boxes_none /\ i < Len(res.boxes) THEN res.boxes[i + 1] ELSE None

\* mask_width * mask_height of masks[0].shape, or 1 * 1 for an empty array
TotalArea(masks) == IF Len(masks) > 0 THEN Width(masks[1]) * Height(masks[1]) ELSE 1

FirstPass(res, max_masks, min_area, indices) ==
    LET considered == Slice(res.masks, max_masks)
        total_area == TotalArea(res.masks)
        RECURSIVE loop(_, _, _)
        loop(i, acc, mask_id) ==
            IF i >= Len(considered) THEN acc
            ELSE IF ~InIndices(i, indices) THEN loop(i + 1, acc, mask_id)
            ELSE LET binary_mask == Binarize(considered[i + 1])
                     mask_pixel_count == PixelSum(binary_mask)
                 IN  IF AreaTooSmall(mask_pixel_count, total_area, min_area)
                     THEN loop(i + 1, acc, mask_id)
                     ELSE loop(i + 1,
                               Append(acc, [original_idx |-> i,
                                            mask_id |-> mask_id,
                                            binary_mask |-> binary_mask,
                                            bbox |-> BoxOf(res, i)]),
                               NextMaskId(mask_id))
    IN  loop(0, <<>>, 0)

(***************************************************************************)
(* Payload geometry.                                                       *)
(***************************************************************************)
\* PIL Image.resize(size, NEAREST): dst[y][x] = src[floor((y + 0.5) * src_h / h)][...]
ResizePIL(src, w, h) ==
    [r \in 1..h |-> [c \in 1..w |->
        src[((2 * r - 1) * Height(src)) \div (2 * h) + 1]
           [((2 * c - 1) * Width(src)) \div (2 * w) + 1]]]

\* [int(v) for v in bbox], clamped to the image
ClampedBox(bbox, size) ==
    << Max(0, bbox[1]), Max(0, bbox[2]), Min(size[1], bbox[3]), Min(size[2], bbox[4]) >>

\* Image.crop of a box that lies inside the image
Crop(img, box) ==
    [r \in 1..(box[4] - box[2]) |-> [c \in 1..(box[3] - box[1]) |-> img[box[2] + r][box[1] + c]]]

\* the mask image of a payload: binary_mask * 255, resized to the image, cropped to
\* the bbox, PNG (lossless)
MaskImage(binary_mask, bbox, size) ==
    LET binary_mask_img ==
            [r \in 1..Height(binary_mask) |-> [c \in 1..Width(binary_mask) |->
                binary_mask[r][c] * 255]]
        mask_img_resized == ResizePIL(binary_mask_img, size[1], size[2])
    IN  IF bbox # None THEN Crop(mask_img_resized, ClampedBox(bbox, size)) ELSE mask_img_resized

\* padding_ratio=0.15 of the individual inpaint crop
InpaintPadding == Rat(15, 100)

\* max(0.25, min(1.0, request.inpaint_scale))
ClampScale(s) ==
    IF RatLT(s, Rat(1, 4)) THEN Rat(1, 4) ELSE IF RatLT(Rat(1, 1), s) THEN Rat(1, 1) ELSE s

\* (int(original_size[0] * inpaint_scale), int(original_size[1] * inpaint_scale))
ScaledSize(size, scale) == << (size[1] * scale.n) \div scale.d, (size[2] * scale.n) \div scale.d >>

\* Image.resize raises ValueError("height and width must be > 0") on an empty target
ResizeRaises(size) == size[1] < 1 \/ size[2] < 1

(***************************************************************************)
(* Inputs: requests, and what the collaborators may return.                *)
(***************************************************************************)
\* str(e) of an exception a collaborator raises: a message, or "" when it carries none
ExceptionMessages == {"", "CUDA out of memory"}

\* the image of the five-proposal scenario
ScenarioImageSize == <<10, 8>>

\* request.image by what decoding it yields.  Pillow's message ends with the repr of
\* the buffer, whose address differs from run to run: two addresses stand for it.
Images ==
    { [decodes |-> FALSE, error |-> "Incorrect padding", size |-> <<0, 0>>],
      [decodes |-> FALSE, size |-> <<0, 0>>,
       error |-> "cannot identify image file <_io.BytesIO object at 0x7f19a6385670>"],
      [decodes |-> FALSE, size |-> <<0, 0>>,
       error |-> "cannot identify image file <_io.BytesIO object at 0x7f3c5d2b1a40>"],
      [decodes |-> TRUE, error |-> "", size |-> <<2, 2>>],
      [decodes |-> TRUE, error |-> "", size |-> <<8, 8>>],
      [decodes |-> TRUE, error |-> "", size |-> ScenarioImageSize] }

DefaultThreshold == Rat(1, 2)

DefaultScale == Rat(1, 4)

Requests ==
    { r \in [ image : Images,
              max_masks : {-1, 0, 2, 20},
              min_area : {Rat(0, 1), Rat(1, 100), Rat(1, 2)},
              combined_inpaint : BOOLEAN,
              inpaint_scale : {Rat(1, 8), Rat(1, 4), Rat(2, 1)},
              exclude_background : {"none", "segformer", "heuristic"},
              background_overlap_threshold : {Rat(1, 2), Rat(1, 1)} ] :
        /\ r.exclude_background # "segformer" => r.background_overlap_threshold = DefaultThreshold
        /\ IF r.combined_inpaint THEN r.inpaint_scale # DefaultScale
                                 ELSE r.inpaint_scale = DefaultScale }

\* Probability masks on a 2 x 2 grid (tenths): empty after binarization (0.5 is not
\* > 0.5), one pixel, the top row.
MaskEmpty == << <<0, 5>>, <<5, 0>> >>

MaskPixel == << <<0, 9>>, <<0, 0>> >>

MaskRow == << <<6, 10>>, <<0, 5>> >>

\* A proposal: its mask and its box in image pixels (the mask's cell, one pixel in
\* from the image border where the image is large enough).
ProposalPool(size) ==
    LET inset == IF size[1] > 2 THEN 1 ELSE 0
    IN  { [mask |-> MaskEmpty, bbox |-> <<size[1] \div 2, size[2] \div 2, size[1] - inset, size[2] - inset>>],
          [mask |-> MaskPixel, bbox |-> <<size[1] \div 2, inset, size[1] - inset, size[2] \div 2>>],
          [mask |-> MaskRow, bbox |-> <<inset, inset, size[1] - inset, size[2] \div 2>>] }

\* The five-proposal scenario: area fractions 0.002, 0.01, 0.05, 0.2, 0.5 of a
\* 25 x 20 proposal grid (1, 5, 25, 100 and 250 of 500 pixels, in row-major order).
ScenarioMask(n) ==
    [r \in 1..20 |-> [c \in 1..25 |-> IF (r - 1) * 25 + c <= n THEN 9 ELSE 0]]

ScenarioProposals(size) ==
    [k \in 1..5 |-> [mask |-> ScenarioMask(<<1, 5, 25, 100, 250>>[k]),
                     bbox |-> <<0, 0, size[1], size[2]>>]]

\* what FastSAM may propose for an image: the scenario's proposals for the scenario
\* image, up to MaxProposals proposals of the pool for any other image
ProposalLists(size) ==
    IF size = ScenarioImageSize THEN {ScenarioProposals(size)}
    ELSE UNION { [1..n -> ProposalPool(size)] : n \in 0..MaxProposals }

NoResults == [masks_none |-> TRUE, masks |-> <<>>, boxes_none |-> TRUE, boxes |-> <<>>]

\* results[0] of a FastSAM call that returns: masks None, or masks with their boxes
\* (boxes None is the case the handler guards against).
FastSAMResults(size) ==
    {NoResults} \cup
    { [masks_none |-> FALSE,
       masks |-> [k \in 1..Len(ps) |-> ps[k].mask],
       boxes_none |-> bn,
       boxes |-> IF bn THEN <<>> ELSE [k \in 1..Len(ps) |-> ps[k].bbox]] :
         ps \in ProposalLists(size), bn \in BOOLEAN }

\* logits.argmax(dim=1) of SegFormer (batch dimension dropped) on a 2 x 4 grid of
\* class ids: no background, background in the outer columns, background in all
\* columns but the second
SegformerPredictions ==
    { << <<1, 1, 12, 1>>, <<1, 1, 12, 1>> >>,
      << <<3, 1, 1, 3>>, <<3, 1, 1, 3>> >>,
      << <<0, 7, 5, 3>>, <<0, 7, 5, 3>> >> }

\* an argmax with a single row, which .squeeze() turns into a 1-D array
OneRowPrediction == << <<3, 1, 1, 3>> >>

\* what a LaMa call may do: raise, return an RGB image, or return an image whose
\* mode JPEG cannot store (the save after it raises)
LamaOutcomes == {"raise", "RGB", "RGBA"}

(***************************************************************************)
(* The handler segment_image, one action per stage.  Every stage runs      *)
(* inside the outer try: an exception that reaches it ends the request     *)
(* with the error response.  calls logs each collaborator invocation with  *)
(* its outcome.                                                            *)
(***************************************************************************)
\* (mutant) the error response without its masks field
ErrorResponse_NoMasks(e) == [success |-> FALSE, error |-> e]

\* {"success": False, "error": str(e), "masks": []}
ErrorResponse(e) == [success |-> FALSE, error |-> e, masks |-> <<>>]

\* except Exception as e: return the error response
Fail(stage, e) ==
    /\ response' = <<ErrorResponse(e)>>
    /\ raised' = stage
    /\ pc' = "done"

Idle ==
    /\ image = None
    /\ results = NoResults
    /\ background_mask = None
    /\ background_excluded_indices = <<>>
    /\ filtered_masks = <<>>
    /\ combined_inpainted = None
    /\ combined_inpaint_data = None
    /\ masks_data = <<>>
    /\ response = <<>>
    /\ calls = <<>>
    /\ raised = "none"
    /\ debug_task = None

\* no stand-alone filter run
IdleFilter ==
    /\ flt_in = None
    /\ flt_out = <<>>

\* no /ws connection
IdleWs ==
    /\ ws_pc = "idle"
    /\ ws_data = None
    /\ ws_response = None
    /\ ws_received = 0
    /\ ws_sent = <<>>

Init ==
    /\ request \in Requests
    /\ pc = "decode"
    /\ Idle
    /\ eb_in = None
    /\ eb_out = None
    /\ IdleFilter
    /\ IdleWs

\* base64.b64decode(request.image); Image.open(BytesIO(image_data))
Decode ==
    /\ pc = "decode"
    /\ IF request.image.decodes
       THEN /\ image' = request.image.size
            /\ pc' = "infer"
            /\ UNCHANGED <<response, raised>>
       ELSE /\ Fail("decode", request.image.error)
            /\ UNCHANGED image
    /\ UNCHANGED <<request, results, background_mask, background_excluded_indices,
                   filtered_masks, combined_inpainted, combined_inpaint_data, masks_data,
                   calls, eb_in, eb_out, debug_task, flt_vars, ws_vars>>

\* results = model(image, ...); if results[0].masks is not None: ... else: ...
Infer ==
    /\ pc = "infer"
    /\ \/ \E e \in ExceptionMessages :
             /\ calls' = Append(calls, <<"fastsam", "raise">>)
             /\ Fail("fastsam", e)
             /\ UNCHANGED results
       \/ \E res \in FastSAMResults(image) :
             /\ calls' = Append(calls, <<"fastsam", "ok">>)
             /\ results' = res
             /\ pc' = IF res.masks_none THEN "respond" ELSE "background"
             /\ UNCHANGED <<response, raised>>
    /\ UNCHANGED <<request, image, background_mask, background_excluded_indices,
                   filtered_masks, combined_inpainted, combined_inpaint_data, masks_data,
                   eb_in, eb_out, debug_task, flt_vars, ws_vars>>

\* list(range(min(len(masks), request.max_masks)))
AllIndices(masks, max_masks) == Range(Min(Len(masks), max_masks))

\* The background step: SegFormer and filter_masks_by_background under "segformer",
\* every considered index under "heuristic" and "none".
Background ==
    /\ pc = "background"
    /\ IF request.exclude_background = "segformer"
       THEN \/ \E e \in ExceptionMessages :
                  /\ calls' = Append(calls, <<"segformer", "raise">>)
                  /\ Fail("segformer", e)
                  /\ UNCHANGED <<background_mask, background_excluded_indices>>
            \/ \E predicted \in SegformerPredictions :
                  LET bg == get_background_mask_segformer(predicted)
                      f  == filter_masks_by_background(
                                Slice(results.masks, request.max_masks), bg,
                                request.background_overlap_threshold)
                  IN  /\ calls' = Append(calls, <<"segformer", "ok">>)
                      /\ background_mask' = bg
                      /\ IF f.raises # None
                         THEN /\ Fail("filter_masks_by_background", f.raises[1])
                              /\ UNCHANGED background_excluded_indices
                         ELSE /\ background_excluded_indices' = f.filtered_indices
                              /\ pc' = "filter"
                              /\ UNCHANGED <<response, raised>>
       ELSE /\ background_excluded_indices' = AllIndices(results.masks, request.max_masks)
            /\ pc' = "filter"
            /\ UNCHANGED <<background_mask, calls, response, raised>>
    /\ UNCHANGED <<request, image, results, filtered_masks, combined_inpainted,
                   combined_inpaint_data, masks_data, eb_in, eb_out, debug_task, flt_vars, ws_vars>>

\* First pass: filter masks and collect data
Filter ==
    /\ pc = "filter"
    /\ filtered_masks' = FirstPass(results, request.max_masks, request.min_area,
                                   background_excluded_indices)
    /\ pc' = "combined"
    /\ UNCHANGED <<request, image, results, background_mask, background_excluded_indices,
                   combined_inpainted, combined_inpaint_data, masks_data, response, calls,
                   raised, eb_in, eb_out, debug_task, flt_vars, ws_vars>>

\* where the handler goes once the combined step is over: into the payload loop, or
\* past it when there is nothing to build
AfterCombined == IF Len(filtered_masks) > 0 THEN "build" ELSE "respond"

\* if request.combined_inpaint and len(filtered_masks) > 0
CombinedApplies(combined_inpaint, survivors) == combined_inpaint /\ Len(survivors) > 0

\* (mutant) the combined inpainting without its own try: the failure reaches the
\* outer handler
CombinedExcept_Reraise == Fail("combined_inpaint", "inpainting failed")

\* except Exception as e: print("Combined inpainting failed"): the handler goes on
CombinedExcept ==
    /\ pc' = AfterCombined
    /\ UNCHANGED <<response, raised>>

\* Combined inpainting mode: merge all masks and inpaint once, inside its own try
CombinedInpaint ==
    /\ pc = "combined"
    /\ IF CombinedApplies(request.combined_inpaint, filtered_masks)
       THEN LET inpaint_scale == ClampScale(request.inpaint_scale)
                scaled_size == ScaledSize(image, inpaint_scale)
            IN  IF RatLT(inpaint_scale, Rat(1, 1)) /\ ResizeRaises(scaled_size)
                THEN /\ CombinedExcept
                     /\ UNCHANGED <<calls, combined_inpainted, combined_inpaint_data>>
                ELSE \E out \in LamaOutcomes :
                          /\ calls' = Append(calls, <<"lama", out>>)
                          /\ combined_inpainted' =
                                 IF out = "raise" THEN None ELSE <<out, image>>
                          /\ IF out = "RGB"
                             THEN /\ combined_inpaint_data' = <<"jpeg", image>>
                                  /\ pc' = AfterCombined
                                  /\ UNCHANGED <<response, raised>>
                             ELSE /\ CombinedExcept
                                  /\ UNCHANGED combined_inpaint_data
       ELSE /\ pc' = AfterCombined
            /\ UNCHANGED <<calls, combined_inpainted, combined_inpaint_data, response, raised>>
    /\ UNCHANGED <<request, image, results, background_mask, background_excluded_indices,
                   filtered_masks, masks_data, eb_in, eb_out, debug_task, flt_vars, ws_vars>>

\* if not request.combined_inpaint and bbox is not None
IndividualApplies(combined_inpaint, bbox) == ~combined_inpaint /\ bbox # None

\* (mutant) the payload coloured by the proposal's original index
Payload_ColorByOriginalIdx(fm, size, inpaint_data, inpaint_bbox) ==
    LET data == MaskImage(fm.binary_mask, fm.bbox, size)
    IN  [id |-> fm.mask_id,
         data |-> data,
         width |-> Width(data),
         height |-> Height(data),
         bbox |-> fm.bbox,
         color |-> generate_distinct_color(fm.original_idx),
         inpaint_data |-> inpaint_data,
         inpaint_bbox |-> inpaint_bbox]

\* the payload of one survivor
Payload(fm, size, inpaint_data, inpaint_bbox) ==
    LET data == MaskImage(fm.binary_mask, fm.bbox, size)
    IN  [id |-> fm.mask_id,
         data |-> data,
         width |-> Width(data),
         height |-> Height(data),
         bbox |-> fm.bbox,
         color |-> generate_distinct_color(fm.mask_id),
         inpaint_data |-> inpaint_data,
         inpaint_bbox |-> inpaint_bbox]

\* masks_data.append({...}) and the step to the next iteration
AppendPayload(p) ==
    /\ masks_data' = Append(masks_data, p)
    /\ pc' = IF Len(masks_data) + 1 = Len(filtered_masks) THEN "respond" ELSE "build"
    /\ UNCHANGED <<response, raised>>

\* (mutant) the individual inpainting without its own try: the failure reaches the
\* outer handler
IndividualExcept_Reraise(fm, inpaint_bbox) ==
    /\ Fail("individual_inpaint", "inpainting failed")
    /\ UNCHANGED masks_data

\* except Exception as e: print("Inpainting failed for mask"): the payload is still
\* appended, with inpaint_data None and whatever inpaint_bbox was set before the failure
IndividualExcept(fm, inpaint_bbox) == AppendPayload(Payload(fm, image, None, inpaint_bbox))

\* Build mask data: one iteration of `for fm in filtered_masks`, with the
\* individual inpainting of that mask inside its own try
BuildMask ==
    /\ pc = "build"
    /\ Len(masks_data) < Len(filtered_masks)
    /\ LET fm == filtered_masks[Len(masks_data) + 1]
       IN  IF IndividualApplies(request.combined_inpaint, fm.bbox)
           THEN \E out \in LamaOutcomes :
                   /\ calls' = Append(calls, <<"lama", out>>)
                   /\ CASE out = "raise" -> IndividualExcept(fm, None)
                        [] out = "RGBA" ->
                             IndividualExcept(fm, expand_bbox(fm.bbox, image, InpaintPadding))
                        [] OTHER ->
                             AppendPayload(Payload(fm, image, <<"jpeg", fm.mask_id>>,
                                           expand_bbox(fm.bbox, image, InpaintPadding)))
           ELSE /\ AppendPayload(Payload(fm, image, None, None))
                /\ UNCHANGED calls
    /\ UNCHANGED <<request, image, results, background_mask, background_excluded_indices,
                   filtered_masks, combined_inpainted, combined_inpaint_data,
                   eb_in, eb_out, debug_task, flt_vars, ws_vars>>

\* the files save_debug_images writes, in order, for the arguments it is created with:
\* the original always, the others when their argument is present (and non-empty)
DebugFiles(res, survivors, inpainted_image, bg_mask) ==
    <<"original">>
    \o (IF ~res.masks_none /\ Len(res.masks) > 0 THEN <<"segmented_all">> ELSE <<>>)
    \o (IF ~res.masks_none /\ Len(survivors) > 0 THEN <<"segmented">> ELSE <<>>)
    \o (IF inpainted_image # None THEN <<"inpainted">> ELSE <<>>)
    \o (IF bg_mask # None THEN <<"background", "segformer">> ELSE <<>>)

\* asyncio.create_task(save_debug_images(...)): the task is scheduled, not awaited
CreateDebugTask ==
    debug_task' = << [status |-> "pending",
                      plan |-> DebugFiles(results, filtered_masks, combined_inpainted,
                                          background_mask),
                      files |-> <<>>] >>

\* return {"success": True, "count": len(masks_data), "masks": masks_data, ...}
Respond ==
    /\ pc = "respond"
    /\ CreateDebugTask
    /\ response' = << [success |-> TRUE,
                       count |-> Len(masks_data),
                       masks |-> masks_data,
                       image_size |-> image,
                       combined_inpaint_data |-> combined_inpaint_data] >>
    /\ pc' = "done"
    /\ UNCHANGED <<request, image, results, background_mask, background_excluded_indices,
                   filtered_masks, combined_inpainted, combined_inpaint_data, masks_data,
                   calls, raised, eb_in, eb_out, flt_vars, ws_vars>>

\* (mutant) save_debug_images without its try: the failure replaces the response
DebugExcept_Propagate ==
    /\ response' = <<ErrorResponse("cannot write debug image")>>
    /\ raised' = "save_debug_images"

\* except Exception as e: print("[DEBUG] Failed to save debug images"): nothing leaves
\* the task
DebugExcept == UNCHANGED <<response, raised>>

\* The body of save_debug_images, run by the event loop some time after the handler
\* has returned: it writes its files in order and may fail before any of them.
SaveDebugImages ==
    /\ debug_task # None
    /\ debug_task[1].status = "pending"
    /\ \E n \in 0..Len(debug_task[1].plan) :
          /\ debug_task' = << [status |-> IF n = Len(debug_task[1].plan)
                                          THEN "saved" ELSE "failed",
                               plan |-> debug_task[1].plan,
                               files |-> SubSeq(debug_task[1].plan, 1, n)] >>
          /\ IF n = Len(debug_task[1].plan)
             THEN UNCHANGED <<response, raised>>
             ELSE DebugExcept
    /\ UNCHANGED <<request, pc, image, results, background_mask,
                   background_excluded_indices, filtered_masks, combined_inpainted,
                   combined_inpaint_data, masks_data, calls, eb_in, eb_out,
                   flt_vars, ws_vars>>

Next ==
    \/ Decode
    \/ Infer
    \/ Background
    \/ Filter
    \/ CombinedInpaint
    \/ BuildMask
    \/ Respond
    \/ SaveDebugImages

Spec == Init /\ [][Next]_vars

(***************************************************************************)
(* expand_bbox on its own: any rectangle (x1 <= x2, y1 <= y2), inside the  *)
(* image or partly or wholly outside it, any padding ratio >= 0.           *)
(***************************************************************************)
Coordinates == {-6, -1, 0, 3, 8, 10, 14}

BBoxImageSize == <<8, 8>>

BBoxInputs ==
    { [bbox |-> <<x1, y1, x2, y2>>, image_size |-> BBoxImageSize, padding_ratio |-> pr] :
        x1 \in Coordinates, y1 \in {0, 3}, x2 \in Coordinates, y2 \in {3, 8},
        pr \in {Rat(0, 1), Rat(1, 10), InpaintPadding, Rat(1, 1)} }

\* SegmentRequest with the schema's defaults
DefaultRequest ==
    [ image |-> [decodes |-> TRUE, error |-> "", size |-> BBoxImageSize],
      max_masks |-> 20,
      min_area |-> Rat(5, 1000),
      combined_inpaint |-> TRUE,
      inpaint_scale |-> DefaultScale,
      exclude_background |-> "none",
      background_overlap_threshold |-> DefaultThreshold ]

InitBBox ==
    /\ request = DefaultRequest
    /\ pc = "expand_bbox"
    /\ Idle
    /\ eb_in \in {a \in BBoxInputs : a.bbox[1] <= a.bbox[3] /\ a.bbox[2] <= a.bbox[4]}
    /\ eb_out = None
    /\ IdleFilter
    /\ IdleWs

ExpandBBoxCall ==
    /\ pc = "expand_bbox"
    /\ eb_out' = expand_bbox(eb_in.bbox, eb_in.image_size, eb_in.padding_ratio)
    /\ pc' = "returned"
    /\ UNCHANGED <<request, image, results, background_mask, background_excluded_indices,
                   filtered_masks, combined_inpainted, combined_inpaint_data, masks_data,
                   response, calls, raised, eb_in, debug_task, flt_vars, ws_vars>>

NextBBox == ExpandBBoxCall

SpecBBox == InitBBox /\ [][NextBBox]_vars

(***************************************************************************)
(* The mask filter on its own: the background step and the first pass of   *)
(* segment_image on a proposal list, then once more on the survivors.      *)
(***************************************************************************)
\* the background step followed by the first pass, as segment_image runs them
MaskFilterPipeline(res, max_masks, min_area, exclude_background, predicted, threshold) ==
    IF exclude_background = "segformer"
    THEN LET f == filter_masks_by_background(Slice(res.masks, max_masks),
                                            get_background_mask_segformer(predicted),
                                            threshold)
         IN  IF f.raises # None
             THEN [raises |-> f.raises, filtered_masks |-> <<>>]
             ELSE [raises |-> None,
                   filtered_masks |-> FirstPass(res, max_masks, min_area, f.filtered_indices)]
    ELSE [raises |-> None,
          filtered_masks |-> FirstPass(res, max_masks, min_area,
                                       AllIndices(res.masks, max_masks))]

\* a 0/1 mask read as a probability mask: 1 is probability 1.0
AsProbabilities(binary_mask) ==
    [r \in 1..Height(binary_mask) |-> [c \in 1..Width(binary_mask) |->
        IF binary_mask[r][c] = 1 THEN 10 ELSE 0]]

\* the survivors as a new proposal list at the same resolution, with their boxes
SurvivorsAsProposals(survivors, res) ==
    [masks_none |-> FALSE,
     masks |-> [k \in 1..Len(survivors) |-> AsProbabilities(survivors[k].binary_mask)],
     boxes_none |-> res.boxes_none,
     boxes |-> IF res.boxes_none THEN <<>>
               ELSE [k \in 1..Len(survivors) |-> survivors[k].bbox]]

FilterInputs ==
    { f \in [ results : {r \in FastSAMResults(BBoxImageSize)
                                  \cup FastSAMResults(ScenarioImageSize) : ~r.masks_none},
              max_masks : {-1, 0, 2, 20},
              min_area : {Rat(0, 1), Rat(1, 100), Rat(1, 2)},
              exclude_background : {"none", "segformer", "heuristic"},
              predicted : SegformerPredictions \cup {OneRowPrediction},
              background_overlap_threshold : {Rat(1, 2), Rat(1, 1)} ] :
        f.exclude_background # "segformer" =>
            /\ f.background_overlap_threshold = DefaultThreshold
            /\ f.predicted = << <<1, 1, 12, 1>>, <<1, 1, 12, 1>> >> }

InitFilter ==
    /\ request = DefaultRequest
    /\ pc = "filter_pipeline"
    /\ Idle
    /\ eb_in = None
    /\ eb_out = None
    /\ flt_in \in FilterInputs
    /\ flt_out = <<>>
    /\ IdleWs

\* the pipeline with the parameters of flt_in on the given proposals
FilterWith(res) ==
    MaskFilterPipeline(res, flt_in.max_masks, flt_in.min_area, flt_in.exclude_background,
                       flt_in.predicted, flt_in.background_overlap_threshold)

RunFilter ==
    /\ pc = "filter_pipeline"
    /\ flt_out' = <<FilterWith(flt_in.results)>>
    /\ pc' = IF flt_out'[1].raises # None THEN "returned" ELSE "filter_again"
    /\ UNCHANGED <<request, image, results, background_mask, background_excluded_indices,
                   filtered_masks, combined_inpainted, combined_inpaint_data, masks_data,
                   response, calls, raised, debug_task, eb_in, eb_out, flt_in, ws_vars>>

RerunFilter ==
    /\ pc = "filter_again"
    /\ flt_out' = Append(flt_out,
                         FilterWith(SurvivorsAsProposals(flt_out[1].filtered_masks,
                                                         flt_in.results)))
    /\ pc' = "returned"
    /\ UNCHANGED <<request, image, results, background_mask, background_excluded_indices,
                   filtered_masks, combined_inpainted, combined_inpaint_data, masks_data,
                   response, calls, raised, debug_task, eb_in, eb_out, flt_in, ws_vars>>

NextFilter ==
    \/ RunFilter
    \/ RerunFilter

SpecFilter == InitFilter /\ [][NextFilter]_vars

(***************************************************************************)
(* The /ws connection handler websocket_endpoint                           *)
(* (src/server/websocket_server.py): one connection, its receive loop, the *)
(* processing of each text message and the sending of its response.        *)
(***************************************************************************)
\* str(e) of `"image" not in message` on a JSON number
TypeErrorMessage == "argument of type 'int' is not iterable"

NoImage == [decodes |-> FALSE, error |-> "", size |-> <<0, 0>>]

\* A text message by what json.loads makes of it: unparsable, a number, or an object
\* with or without "image" and with "max_masks" (10 when absent).
WsMessages ==
    { [json |-> j, has_image |-> FALSE, image |-> NoImage, max_masks |-> 10] :
        j \in {"invalid", "scalar", "object"} }
    \cup
    { [json |-> "object", has_image |-> TRUE, image |-> i, max_masks |-> m] :
        i \in {i \in Images : ~i.decodes \/ i.size = <<8, 8>>}, m \in {1, 10} }

\* {"error": ...}
WsError(e) == [error |-> e]

\* (mask > 0.5).astype(np.uint8) * 255, saved as PNG (lossless)
WsMaskImage(mask) ==
    [r \in 1..Height(mask) |-> [c \in 1..Width(mask) |-> IF mask[r][c] > 5 THEN 255 ELSE 0]]

\* the payloads of masks[:max_masks]
WsMasksData(masks) ==
    [k \in 1..Len(masks) |-> [id |-> k - 1,
                              data |-> WsMaskImage(masks[k]),
                              width |-> Width(masks[k]),
                              height |-> Height(masks[k])]]

\* the response when masks is not None: count is len(masks) before the cut
WsSuccess(masks, max_masks, size) ==
    [success |-> TRUE,
     count |-> Len(masks),
     masks |-> WsMasksData(Slice(masks, max_masks)),
     image_size |-> size]

WsNoSegments ==
    [success |-> TRUE, count |-> 0, masks |-> <<>>, message |-> "No segments detected"]

\* which of the handler's outcomes a sent message is
WsOutcome(msg) ==
    IF "error" \in DOMAIN msg
    THEN CASE msg.error = "No image data provided" -> "no_image"
           [] msg.error = "Invalid JSON format" -> "invalid_json"
           [] OTHER -> "exception"
    ELSE IF "message" \in DOMAIN msg THEN "no_segments" ELSE "success"

InitWs ==
    /\ request = DefaultRequest
    /\ pc = "websocket"
    /\ Idle
    /\ eb_in = None
    /\ eb_out = None
    /\ IdleFilter
    /\ ws_pc = "receive"
    /\ ws_data = None
    /\ ws_response = None
    /\ ws_received = 0
    /\ ws_sent = <<>>

\* data = await websocket.receive_text(): a text message, WebSocketDisconnect, or
\* another exception of the transport; both exceptions leave the loop
WsReceive ==
    /\ ws_pc = "receive"
    /\ \/ /\ ws_received < MaxMessages
          /\ \E m \in WsMessages : ws_data' = <<m>>
          /\ ws_received' = ws_received + 1
          /\ ws_pc' = "process"
       \/ /\ ws_pc' \in {"disconnected", "error"}
          /\ UNCHANGED <<ws_data, ws_received>>
    /\ UNCHANGED <<request, pc, image, results, background_mask,
                   background_excluded_indices, filtered_masks, combined_inpainted,
                   combined_inpaint_data, masks_data, response, calls, raised,
                   debug_task, eb_in, eb_out, flt_vars, ws_response, ws_sent>>

\* the message the handler is about to send, from the try body ("send") or from one
\* of its except clauses ("send_error")
WsReply(msg, position) ==
    /\ ws_response' = << [message |-> msg, state |-> "pending"] >>
    /\ ws_pc' = position

\* (mutant) json.JSONDecodeError not caught: it leaves the loop
WsInvalidJson_Uncaught ==
    /\ ws_pc' = "error"
    /\ UNCHANGED ws_response

\* except json.JSONDecodeError: send {"error": "Invalid JSON format"}
WsInvalidJson == WsReply(WsError("Invalid JSON format"), "send_error")

\* The inner try up to the send: json.loads, the "image" test, the decoding, the
\* FastSAM call and the response built from its masks.
WsProcess ==
    /\ ws_pc = "process"
    /\ LET m == ws_data[1]
       IN  CASE m.json = "invalid" -> WsInvalidJson
             [] m.json = "scalar" -> WsReply(WsError(TypeErrorMessage), "send_error")
             [] m.json = "object" /\ ~m.has_image ->
                    WsReply(WsError("No image data provided"), "send")
             [] m.json = "object" /\ m.has_image /\ ~m.image.decodes ->
                    WsReply(WsError(m.image.error), "send_error")
             [] OTHER ->
                    \/ \E e \in ExceptionMessages : WsReply(WsError(e), "send_error")
                    \/ \E res \in FastSAMResults(m.image.size) :
                          IF res.masks_none
                          THEN WsReply(WsNoSegments, "send")
                          ELSE WsReply(WsSuccess(res.masks, m.max_masks, m.image.size),
                                       "send")
    /\ UNCHANGED <<request, pc, image, results, background_mask,
                   background_excluded_indices, filtered_masks, combined_inpainted,
                   combined_inpaint_data, masks_data, response, calls, raised,
                   debug_task, eb_in, eb_out, flt_vars, ws_data, ws_received, ws_sent>>

\* await websocket.send_text(json.dumps(...)): the message goes out and the loop
\* reads again, or the transport fails: in the try body the failure is caught by
\* `except Exception`, which sends {"error": str(e)}; in an except clause it leaves
\* the loop through the outer handlers.
WsSend ==
    /\ ws_pc \in {"send", "send_error"}
    /\ \/ /\ ws_response' = << [ws_response[1] EXCEPT !.state = "sent"] >>
          /\ ws_sent' = Append(ws_sent, WsOutcome(ws_response[1].message))
          /\ ws_data' = None
          /\ ws_pc' = "receive"
       \/ /\ ws_pc = "send"
          /\ \E e \in ExceptionMessages : WsReply(WsError(e), "send_error")
          /\ UNCHANGED <<ws_data, ws_sent>>
       \/ /\ ws_pc = "send_error"
          /\ ws_response' = << [ws_response[1] EXCEPT !.state = "failed"] >>
          /\ ws_pc' \in {"disconnected", "error"}
          /\ UNCHANGED <<ws_data, ws_sent>>
    /\ UNCHANGED <<request, pc, image, results, background_mask,
                   background_excluded_indices, filtered_masks, combined_inpainted,
                   combined_inpaint_data, masks_data, response, calls, raised,
                   debug_task, eb_in, eb_out, flt_vars, ws_received>>

NextWs ==
    \/ WsReceive
    \/ WsProcess
    \/ WsSend

SpecWs == InitWs /\ [][NextWs]_vars

(***************************************************************************)
(* Properties.                                                             *)
(***************************************************************************)
Returned == pc = "done" /\ Len(response) = 1

Succeeded == Returned /\ response[1].success

\* the first pass is over and no exception has ended the request
Filtered == pc \in {"combined", "build", "respond", "done"} /\ raised = "none" /\ ~results.masks_none

Ids(fms) == {fms[k].mask_id : k \in 1..Len(fms)}

\* C1: the survivors' output ids are exactly 0..k-1, none reused, and strictly
\* increasing in the original proposal index; the response lists the same ids.
C1_DenseIncreasingIds ==
    /\ Filtered =>
         /\ Ids(filtered_masks) = 0..(Len(filtered_masks) - 1)
         /\ \A a, b \in 1..Len(filtered_masks) :
               /\ a # b => filtered_masks[a].mask_id # filtered_masks[b].mask_id
               /\ filtered_masks[a].original_idx < filtered_masks[b].original_idx
                     => filtered_masks[a].mask_id < filtered_masks[b].mask_id
    /\ Succeeded =>
         {response[1].masks[k].id : k \in 1..Len(response[1].masks)}
             = 0..(Len(filtered_masks) - 1)

\* two survivors around a dropped proposal: the second's id differs from its index
C1_Witness ==
    /\ Succeeded
    /\ Len(filtered_masks) >= 2
    /\ \E k \in 1..Len(filtered_masks) : filtered_masks[k].original_idx > filtered_masks[k].mask_id

\* C2: only the max_masks earliest proposals are considered: no returned mask has an
\* original index >= max_masks and the response holds at most max_masks masks.
C2_CapRespected ==
    Succeeded =>
        /\ Len(response[1].masks) <= request.max_masks
        /\ \A k \in 1..Len(filtered_masks) : filtered_masks[k].original_idx < request.max_masks

\* the overlap ratio |mask AND background| / |mask| of proposal i, against the
\* background mask resized to the proposal resolution, compared with the threshold
OverlapCount(i) ==
    LET m == results.masks[i + 1]
    IN  OverlapSum(Binarize(m), ResizeNearest(background_mask, Width(m), Height(m)))

AreaCount(i) == PixelSum(Binarize(results.masks[i + 1]))

RatioAtLeastThreshold(i) ==
    LET thr == request.background_overlap_threshold
    IN  IF AreaCount(i) = 0 THEN 0 >= thr.n
        ELSE OverlapCount(i) * thr.d >= thr.n * AreaCount(i)

RatioEqualsThreshold(i) ==
    LET thr == request.background_overlap_threshold
    IN  AreaCount(i) # 0 /\ OverlapCount(i) * thr.d = thr.n * AreaCount(i)

Segformer == request.exclude_background = "segformer"

\* C3: under semantic exclusion no proposal whose overlap ratio is >= the threshold
\* survives or is returned; a ratio equal to the threshold is excluded.
C3_BackgroundExcluded ==
    (Filtered /\ Segformer) =>
        /\ \A k \in 1..Len(filtered_masks) : ~RatioAtLeastThreshold(filtered_masks[k].original_idx)
        /\ Succeeded => Len(response[1].masks) = Len(filtered_masks)

\* a proposal exactly at the threshold was dropped while another one was returned
C3_Witness ==
    /\ Succeeded /\ Segformer /\ ~results.masks_none
    /\ Len(response[1].masks) >= 1
    /\ \E i \in 0..(Len(results.masks) - 1) :
          /\ i < request.max_masks
          /\ RatioEqualsThreshold(i)
          /\ \A k \in 1..Len(filtered_masks) : filtered_masks[k].original_idx # i

\* proposal i is among the considered ones and passed the background step
PassedBackground(i) ==
    /\ i < Len(Slice(results.masks, request.max_masks))
    /\ InIndices(i, background_excluded_indices)

Kept(i) == \E k \in 1..Len(filtered_masks) : filtered_masks[k].original_idx = i

\* the proposal-resolution area, from the shape of the proposal masks
ProposalArea == Width(results.masks[1]) * Height(results.masks[1])

ScenarioRun ==
    /\ request.min_area = Rat(1, 100)
    /\ request.max_masks = 20
    /\ request.exclude_background = "none"
    /\ ~results.masks_none
    /\ Len(results.masks) = 5
    /\ \A k \in 1..5 : results.masks[k] = ScenarioProposals(image)[k].mask

\* C4: a candidate that passed the background step is kept exactly when
\* pixel_count / (proposal_width * proposal_height) >= min_area (equality survives);
\* in the five-proposal scenario exactly the last four survive, with ids 0..3.
C4_AreaFilter ==
    Filtered =>
        /\ \A i \in 0..(Len(results.masks) - 1) :
              PassedBackground(i) =>
                  (Kept(i) <=> AreaCount(i) * request.min_area.d
                                  >= request.min_area.n * ProposalArea)
        /\ ScenarioRun =>
              /\ Len(filtered_masks) = 4
              /\ \A k \in 1..4 : /\ filtered_masks[k].original_idx = k
                                 /\ filtered_masks[k].mask_id = k - 1

\* the scenario has been answered: four masks, the one at exactly min_area among them
C4_Witness ==
    /\ Succeeded
    /\ ScenarioRun
    /\ response[1].count = 4
    /\ AreaCount(1) * request.min_area.d = request.min_area.n * ProposalArea
    /\ ProposalArea # image[1] * image[2]

CollaboratorStages == {"decode", "fastsam", "segformer"}

\* C5: when no collaborator failed and no proposal survives (none returned, none
\* considered, or all filtered out), the response is a success with count 0 and no masks.
C5_EmptyIsSuccess ==
    (Returned /\ raised \notin CollaboratorStages /\ Len(filtered_masks) = 0) =>
        /\ response[1].success
        /\ response[1].count = 0
        /\ response[1].masks = <<>>

IsErrorShape(r) ==
    /\ DOMAIN r = {"success", "error", "masks"}
    /\ r.success = FALSE
    /\ r.masks = <<>>

\* the collaborator invocations made when the given stage failed
CallsUpTo(stage) ==
    CASE stage = "decode" -> <<>>
      [] stage = "fastsam" -> << <<"fastsam", "raise">> >>
      [] OTHER -> << <<"fastsam", "ok">>, <<"segformer", "raise">> >>

\* C6 as stated: a decoding or collaborator failure gives the error response with a
\* non-empty error, no partial masks, and no collaborator invoked after the failure.
C6_NonEmptyError ==
    (Returned /\ raised \in CollaboratorStages) =>
        /\ IsErrorShape(response[1])
        /\ response[1].error # ""
        /\ masks_data = <<>>
        /\ calls = CallsUpTo(raised)

\* C6 as amended: the same, where error is str(e): the decoder's message (non-empty)
\* for an undecodable image, the collaborator exception's own message otherwise.
C6_ShortCircuit ==
    (Returned /\ raised \in CollaboratorStages) =>
        /\ IsErrorShape(response[1])
        /\ raised = "decode" => response[1].error = request.image.error /\ response[1].error # ""
        /\ raised # "decode" => response[1].error \in ExceptionMessages
        /\ masks_data = <<>>
        /\ filtered_masks = <<>>
        /\ calls = CallsUpTo(raised)

\* SegFormer failed after FastSAM had returned proposals
C6_Witness ==
    /\ Returned
    /\ raised = "segformer"
    /\ Len(results.masks) >= 2
    /\ response[1].error # ""
    /\ calls = CallsUpTo("segformer")

LamaCalls == SelectSeq(calls, LAMBDA c : c[1] = "lama")

WithBox(k) == {j \in 1..k : filtered_masks[j].bbox # None}

\* C7: combined mode invokes the inpainting collaborator exactly once when a mask
\* survives and never otherwise (combined_inpaint_data is then null); individual
\* mode invokes it exactly once per surviving mask that has a bbox.
C7_InpaintCalls ==
    (Returned /\ raised = "none") =>
        IF request.combined_inpaint
        THEN /\ Len(LamaCalls) = IF Len(filtered_masks) > 0 THEN 1 ELSE 0
             /\ Len(filtered_masks) = 0 => response[1].combined_inpaint_data = None
        ELSE Len(LamaCalls) = Cardinality(WithBox(Len(filtered_masks)))

\* the payload the response must hold for survivor k when no inpaint artifact is attached
PlainPayload(p, k) ==
    /\ p.id = k - 1
    /\ p.bbox = BoxOf(results, filtered_masks[k].original_idx)
    /\ p.color = generate_distinct_color(k - 1)
    /\ p.inpaint_data = None
    /\ p.inpaint_bbox = None

CombinedFailed == Len(LamaCalls) = 0 \/ LamaCalls[Len(LamaCalls)][2] # "RGB"

\* C8: in combined mode the response is a success whose per-mask payloads depend on
\* the survivors alone, whether the combined inpainting succeeded or failed at any
\* step; after a failure only combined_inpaint_data is null.
C8_CombinedDegrades ==
    (pc = "done" /\ request.combined_inpaint /\ Len(filtered_masks) > 0) =>
        /\ Succeeded
        /\ response[1].count = Len(filtered_masks)
        /\ Len(response[1].masks) = Len(filtered_masks)
        /\ \A k \in 1..Len(filtered_masks) : PlainPayload(response[1].masks[k], k)
        /\ (response[1].combined_inpaint_data = None) <=> CombinedFailed

\* LaMa raised in combined mode with two survivors
C8_Witness ==
    /\ Succeeded
    /\ request.combined_inpaint
    /\ Len(filtered_masks) >= 2
    /\ LamaCalls = << <<"lama", "raise">> >>
    /\ response[1].combined_inpaint_data = None

\* C9: in individual mode the response is a success with one payload per survivor;
\* a mask whose inpainting failed has inpaint_data null and every other mask with a
\* bbox carries its own inpaint_data, whichever masks fail.
C9_IndividualIsolated ==
    (pc = "done" /\ ~request.combined_inpaint /\ Len(filtered_masks) > 0) =>
        /\ Succeeded
        /\ Len(response[1].masks) = Len(filtered_masks)
        /\ Len(LamaCalls) = Cardinality(WithBox(Len(filtered_masks)))
        /\ \A k \in 1..Len(filtered_masks) :
              LET fm == filtered_masks[k]
                  p  == response[1].masks[k]
              IN  /\ p.id = fm.mask_id
                  /\ IF fm.bbox = None
                     THEN p.inpaint_data = None
                     ELSE IF LamaCalls[Cardinality(WithBox(k))][2] = "RGB"
                          THEN p.inpaint_data = <<"jpeg", fm.mask_id>>
                          ELSE p.inpaint_data = None

\* the first mask's inpainting raised, the second mask still carries its result
C9_Witness ==
    /\ Succeeded
    /\ ~request.combined_inpaint
    /\ Len(filtered_masks) >= 2
    /\ Len(LamaCalls) >= 2
    /\ LamaCalls[1][2] = "raise"
    /\ LamaCalls[2][2] = "RGB"
    /\ response[1].masks[1].inpaint_data = None
    /\ response[1].masks[2].inpaint_data # None

\* C10: every coordinate expand_bbox returns lies within the image on its axis.
C10_WithinImage ==
    eb_out # None =>
        /\ 0 <= eb_out[1] /\ eb_out[1] <= eb_in.image_size[1]
        /\ 0 <= eb_out[3] /\ eb_out[3] <= eb_in.image_size[1]
        /\ 0 <= eb_out[2] /\ eb_out[2] <= eb_in.image_size[2]
        /\ 0 <= eb_out[4] /\ eb_out[4] <= eb_in.image_size[2]

\* C11: in every success response the masks array lists one payload per survivor in
\* output-id order (the payload at position p has id p, 0-based), count is the length
\* of masks, and each payload's color is the color of its output id.
C11_PayloadOrder ==
    Succeeded =>
        /\ response[1].count = Len(response[1].masks)
        /\ Len(response[1].masks) = Len(filtered_masks)
        /\ \A k \in 1..Len(response[1].masks) :
              /\ response[1].masks[k].id = k - 1
              /\ response[1].masks[k].id = filtered_masks[k].mask_id
              /\ response[1].masks[k].color = generate_distinct_color(k - 1)

\* several masks returned, one of them a proposal whose original index differs from
\* its output id and whose color is not the color of that original index
C11_Witness ==
    /\ Succeeded
    /\ response[1].count >= 2
    /\ \E k \in 1..Len(filtered_masks) :
          /\ filtered_masks[k].original_idx # filtered_masks[k].mask_id
          /\ response[1].masks[k].color
                # generate_distinct_color(filtered_masks[k].original_idx)

\* the success response the handler builds from the payloads and the combined result
SuccessOf(payloads, size, combined_data) ==
    /\ Succeeded
    /\ response[1].count = Len(payloads)
    /\ response[1].masks = payloads
    /\ response[1].image_size = size
    /\ response[1].combined_inpaint_data = combined_data

\* C14: once the debug task exists, whether it is still pending, has saved all its
\* files or has failed at any step, the request has its response, that response is
\* the success response built from the payloads, and no exception has reached the
\* handler.
C14_DebugTaskIsolated ==
    debug_task # None =>
        /\ Returned
        /\ raised = "none"
        /\ SuccessOf(masks_data, image, combined_inpaint_data)

\* the task failed after writing some of its files, and the masks were returned
C14_Witness ==
    /\ debug_task # None
    /\ debug_task[1].status = "failed"
    /\ Len(debug_task[1].files) >= 2
    /\ Succeeded
    /\ response[1].count >= 1

\* C15: under semantic exclusion with a threshold > 0, a considered proposal whose
\* binarized mask is empty (overlap ratio 0.0) passes the background step, so it is
\* kept exactly when the area filter keeps it, as with exclusion disabled: it is
\* kept when min_area <= 0.
C15_EmptyMaskReachesAreaFilter ==
    (Filtered /\ Segformer /\ request.background_overlap_threshold.n > 0) =>
        \A i \in 0..(Len(Slice(results.masks, request.max_masks)) - 1) :
            AreaCount(i) = 0 =>
                /\ PassedBackground(i)
                /\ Kept(i) <=> ~AreaTooSmall(0, ProposalArea, request.min_area)

\* C12: when the filter is run again on its survivors with the same parameters,
\* every survivor is returned again, in the same order, with the same id and mask.
C12_FilterIdempotent ==
    Len(flt_out) = 2 =>
        /\ Len(flt_out[2].filtered_masks) = Len(flt_out[1].filtered_masks)
        /\ \A k \in 1..Len(flt_out[1].filtered_masks) :
              /\ flt_out[2].filtered_masks[k].mask_id = flt_out[1].filtered_masks[k].mask_id
              /\ flt_out[2].filtered_masks[k].original_idx = k - 1
              /\ flt_out[2].filtered_masks[k].binary_mask
                    = flt_out[1].filtered_masks[k].binary_mask

\* the message being handled is malformed: unparsable, not an object, without an
\* image, or with an undecodable image
WsMalformed(m) == m.json # "object" \/ ~m.has_image \/ ~m.image.decodes

\* the structured error shape: success=false, a message in error, masks=[]
CarriesErrorShape(r) ==
    /\ {"success", "error", "masks"} \subseteq DOMAIN r
    /\ r.success = FALSE
    /\ r.masks = <<>>

\* C13: on /ws as on POST /segment, the response to a malformed input or to a stage
\* exception carries the structured error shape (success=false, error, masks=[]).
C13_StructuredErrors ==
    /\ (Returned /\ raised # "none") => CarriesErrorShape(response[1])
    /\ (ws_pc \in {"send", "send_error"} /\ WsMalformed(ws_data[1]))
          => CarriesErrorShape(ws_response[1].message)

WsOutcomes == {"success", "no_segments", "no_image", "invalid_json", "exception"}

WsClosed == ws_pc \in {"disconnected", "error"}

\* C16: on a /ws connection every text message read gets exactly one response, sent
\* before the next message is read, whatever its outcome; the loop is left only from
\* the receive (client disconnect, transport error) or from a send that failed.
C16_OneResponsePerMessage ==
    ws_pc # "idle" =>
        /\ \A k \in 1..Len(ws_sent) : ws_sent[k] \in WsOutcomes
        /\ ws_pc = "receive" => (ws_data = None /\ Len(ws_sent) = ws_received)
        /\ ws_pc \in {"process", "send", "send_error"} =>
              (ws_data # None /\ Len(ws_sent) = ws_received - 1)
        /\ WsClosed =>
              \/ ws_data = None /\ Len(ws_sent) = ws_received
              \/ /\ ws_data # None
                 /\ ws_response # None
                 /\ ws_response[1].state = "failed"
                 /\ Len(ws_sent) = ws_received - 1

\* after an unparsable message and a message without image were answered, a valid
\* message on the same connection was answered with its masks
C16_Witness ==
    /\ ws_pc = "receive"
    /\ ws_sent = <<"invalid_json", "no_image", "success">>
    /\ ws_response[1].state = "sent"
    /\ ws_response[1].message.count >= 2

====
